---- MODULE Spec2Model ----
(***************************************************************************)
(* Model of azure-terminal-copilot (src/main.py): the session loop of      *)
(* main(), MCPClient.connect_to_server / send_command /                    *)
(* translate_to_azmcp_command / display_as_table / cleanup.                *)
(*                                                                         *)
(* Strings the program searches, strips or lower-cases (user input, the    *)
(* oracle's answer, tool names) are sequences of tokens: a token is a word *)
(* or the blank " ".  Strings the program only decodes or compares (tool   *)
(* response texts, mapping keys, exception messages) are TLA+ strings; the *)
(* string functions applied to them are tabulated for the strings of the   *)
(* model.  A formatted line is the sequence of its fragments.              *)
(***************************************************************************)
EXTENDS Integers, Sequences, FiniteSets, TLC

(***************************************************************************)
(* Bounds                                                                  *)
(***************************************************************************)
\* longest content sequence of a tool response
MaxContent == 2

(***************************************************************************)
(* Python values                                                           *)
(***************************************************************************)
None == [t |-> "none"]
Str(s) == [t |-> "str", s |-> s]
Num(n) == [t |-> "int", n |-> n]
List(q) == [t |-> "list", items |-> q]

IsStr(v) == v.t = "str"
IsList(v) == v.t = "list"
IsDict(v) == v.t = "dict"
HasKey(v, k) == k \in DOMAIN v.d

\* Python truth value of a value ("if not data", "and data['value']")
Truthy(v) ==
    CASE v.t = "none" -> FALSE
      [] v.t = "str" -> v.s # ""
      [] v.t = "int" -> v.n # 0
      [] v.t = "list" -> Len(v.items) > 0
      [] v.t = "dict" -> DOMAIN v.d # {}

(***************************************************************************)
(* Token strings: lower(), strip(), "in"                                   *)
(***************************************************************************)
LowerTok(w) ==
    CASE w = "QUIT" -> "quit"
      [] w = "In" -> "in"
      [] w = "Table" -> "table"
      [] w = "View" -> "view"
      [] OTHER -> w

Lower(s) == [i \in 1..Len(s) |-> LowerTok(s[i])]

RECURSIVE LStrip(_)
LStrip(s) == IF s # <<>> /\ Head(s) = " " THEN LStrip(Tail(s)) ELSE s

RECURSIVE RStrip(_)
RStrip(s) ==
    IF s # <<>> /\ s[Len(s)] = " " THEN RStrip(SubSeq(s, 1, Len(s) - 1)) ELSE s

Strip(s) == RStrip(LStrip(s))

\* Python "sub in s"
Contains(s, sub) ==
    \E i \in 1..(Len(s) + 1) :
        /\ i + Len(sub) - 1 <= Len(s)
        /\ SubSeq(s, i, i + Len(sub) - 1) = sub

(***************************************************************************)
(* Mappings: an insertion-ordered key sequence ks and the key->value map d *)
(***************************************************************************)
Dict(pairs) ==
    [t |-> "dict",
     ks |-> [i \in 1..Len(pairs) |-> pairs[i][1]],
     d |-> [k \in {pairs[i][1] : i \in 1..Len(pairs)} |->
               pairs[CHOOSE i \in 1..Len(pairs) : pairs[i][1] = k][2]]]

(***************************************************************************)
(* Tool response texts and json.loads on them                              *)
(***************************************************************************)
TxtNull == "null"
TxtEmptyList == "[]"
TxtNumList == "[1, 2]"
TxtPlain == "Resource group created"
TxtValue == "{\"value\": [{\"name\": \"rg1\", \"location\": \"eastus\"}]}"
TxtOutputStr == "{\"output\": \"[]\"}"
TxtVmList == "[{\"name\": \"vm1\", \"resourceGroup\": \"rg1\"}]"
TxtFooList == "[{\"foo\": 1, \"location\": \"eastus\", \"_etag\": \"e\"}, {\"name\": \"n\", \"Name\": \"N\"}]"
TxtWide == "[{\"zones\": null, \"sku\": {\"name\": \"S1\"}, \"kind\": \"k\", \"tags\": {}, \"managedBy\": \"m\", \"properties\": {}, \"etag\": \"e\", \"status\": \"ok\", \"type\": \"t\", \"location\": \"eastus\", \"id\": \"i\", \"name\": \"n\"}]"
TxtMixed == "[{\"name\": \"a\"}, 2]"
TxtNullNl == "null\n"

RgRow == Dict(<< <<"name", Str("rg1")>>, <<"location", Str("eastus")>> >>)

WideRow ==
    Dict(<< <<"zones", None>>,
            <<"sku", Dict(<< <<"name", Str("S1")>> >>)>>,
            <<"kind", Str("k")>>,
            <<"tags", Dict(<<>>)>>,
            <<"managedBy", Str("m")>>,
            <<"properties", Dict(<<>>)>>,
            <<"etag", Str("e")>>,
            <<"status", Str("ok")>>,
            <<"type", Str("t")>>,
            <<"location", Str("eastus")>>,
            <<"id", Str("i")>>,
            <<"name", Str("n")>> >>)

Decoded(v) == [ok |-> TRUE, v |-> v]
JSONDecodeError == [ok |-> FALSE, v |-> None]

\* json.loads(text): the decoded value, or JSONDecodeError
JsonLoads(text) ==
    CASE text = TxtNull -> Decoded(None)
      [] text = TxtNullNl -> Decoded(None)
      [] text = TxtEmptyList -> Decoded(List(<<>>))
      [] text = TxtNumList -> Decoded(List(<<Num(1), Num(2)>>))
      [] text = TxtValue -> Decoded(Dict(<< <<"value", List(<<RgRow>>)>> >>))
      [] text = TxtOutputStr -> Decoded(Dict(<< <<"output", Str(TxtEmptyList)>> >>))
      [] text = TxtVmList ->
            Decoded(List(<<Dict(<< <<"name", Str("vm1")>>,
                                   <<"resourceGroup", Str("rg1")>> >>)>>))
      [] text = TxtFooList ->
            Decoded(List(<<Dict(<< <<"foo", Num(1)>>,
                                   <<"location", Str("eastus")>>,
                                   <<"_etag", Str("e")>> >>),
                           Dict(<< <<"name", Str("n")>>, <<"Name", Str("N")>> >>)>>))
      [] text = TxtWide -> Decoded(List(<<WideRow>>))
      [] text = TxtMixed ->
            Decoded(List(<<Dict(<< <<"name", Str("a")>> >>), Num(2)>>))
      [] OTHER -> JSONDecodeError

Texts ==
    {"", TxtNull, TxtPlain, TxtEmptyList, TxtNumList, TxtValue, TxtOutputStr,
     TxtVmList, TxtFooList, TxtWide, TxtMixed, TxtNullNl}

(***************************************************************************)
(* Mapping keys: lower(), startswith('_'), replace('_',' ').title()        *)
(***************************************************************************)
LowerKey(k) ==
    CASE k = "resourceGroup" -> "resourcegroup"
      [] k = "provisioningState" -> "provisioningstate"
      [] k = "managedBy" -> "managedby"
      [] k = "Name" -> "name"
      [] OTHER -> k

StartsWithUnderscore(k) == k \in {"_etag"}

DisplayName(k) ==
    CASE k = "name" -> "Name"
      [] k = "Name" -> "Name"
      [] k = "id" -> "Id"
      [] k = "location" -> "Location"
      [] k = "resourceGroup" -> "Resourcegroup"
      [] k = "type" -> "Type"
      [] k = "status" -> "Status"
      [] k = "foo" -> "Foo"
      [] k = "zones" -> "Zones"
      [] k = "sku" -> "Sku"
      [] k = "kind" -> "Kind"
      [] k = "tags" -> "Tags"
      [] k = "managedBy" -> "Managedby"
      [] k = "properties" -> "Properties"
      [] k = "etag" -> "Etag"
      [] k = "value" -> "Value"
      [] k = "output" -> "Output"
      [] k = "message" -> "Message"
      [] OTHER -> k

(***************************************************************************)
(* Printed lines: the kind of line and its fragments                       *)
(***************************************************************************)
Line(kind, parts) == [kind |-> kind, parts |-> parts]

\* a token string as a fragment of a line
Toks(s) == [t |-> "tokens", toks |-> s]

NoDataNotice == "No data returned from the command."
NoResourcesNotice == "No resources found matching your criteria."
DefaultNotice == "Command completed but didn't return usable content."

(***************************************************************************)
(* MCPClient.translate_to_azmcp_command                                    *)
(***************************************************************************)
ToolExt == <<"azmcp-", "extension", "-", "az">>
ToolGroupList == <<"azmcp-", "group", "-", "list">>
ToolGroupListBare == <<"group", "-", "list">>

\* tool.name.replace("azmcp-", "").replace("-", " ")
NormalizeToolName(name) ==
    LET kept == SelectSeq(name, LAMBDA w : w # "azmcp-")
    IN  [i \in 1..Len(kept) |-> IF kept[i] = "-" THEN " " ELSE kept[i]]

\* list(set(available_commands))
CatalogOf(tools) == {NormalizeToolName(tools[i]) : i \in 1..Len(tools)}

\* system_prompt is bound only when available_tools is non-empty; building
\* the request body with it unbound raises before the request is sent
RequestIssued(tools) == tools # <<>>

\* the chat request: the catalog in the system prompt, the query as user content
OracleRequest(query, tools) == [system |-> CatalogOf(tools), user |-> query]
NoRequest == [system |-> {}, user |-> <<>>]

Http(status, content) == [kind |-> "http", status |-> status, content |-> content]
TransportFailure == [kind |-> "transport", status |-> 0, content |-> <<>>]
MalformedBody == [kind |-> "malformed", status |-> 200, content |-> <<>>]

\* mutant: a failed request's body is used as the command
TranslateResult_NoFallback(query, tools, oracle) ==
    IF ~RequestIssued(tools) THEN query
    ELSE IF oracle.kind = "http" THEN Strip(oracle.content)
    ELSE <<>>

\* the value translate_to_azmcp_command returns
TranslateResult(query, tools, oracle) ==
    IF ~RequestIssued(tools) THEN query
    ELSE IF oracle.kind = "http" /\ oracle.status = 200 THEN Strip(oracle.content)
    ELSE query

(***************************************************************************)
(* MCPClient.send_command                                                  *)
(***************************************************************************)
TablePhrases ==
    { <<"show", " ", "as", " ", "table">>,
      <<"as", " ", "a", " ", "table">>,
      <<"in", " ", "table", " ", "format">>,
      <<"display", " ", "table">>,
      <<"format", " ", "as", " ", "table">>,
      <<"table", " ", "view">>,
      <<"show", " ", "table">>,
      <<"in", " ", "table", " ", "view">> }

TableRequested(command) == \E term \in TablePhrases : Contains(Lower(command), term)

\* mutant: the flag is recomputed from the translated command
BuildMetadata_Recomputed(command, azure, requested) ==
    [original_command |-> command, azure_command |-> azure,
     table_requested |-> TableRequested(azure)]

BuildMetadata(command, azure, requested) ==
    [original_command |-> command, azure_command |-> azure,
     table_requested |-> requested]

NoMetadata == BuildMetadata(<<>>, <<>>, FALSE)

ResultValue(v, metadata) ==
    [kind |-> "result", result |-> v, error |-> <<>>, metadata |-> metadata]

\* mutant: the exception's message is dropped
CommandError_NoMessage(msg) ==
    [kind |-> "error", result |-> None,
     error |-> <<"Command execution failed">>, metadata |-> NoMetadata]

\* the value of the except branch
CommandError(msg) ==
    [kind |-> "error", result |-> None,
     error |-> <<"Command execution failed: ", msg>>, metadata |-> NoMetadata]

NoResult == [kind |-> "none", result |-> None, error |-> <<>>, metadata |-> NoMetadata]

TextItem(text) == [hasText |-> TRUE, text |-> text]
NoTextItem == [hasText |-> FALSE, text |-> ""]

DirectResult(v) == [hasResult |-> TRUE, result |-> v, content |-> <<>>]
ContentResponse(content) == [hasResult |-> FALSE, result |-> None, content |-> content]

\* hasattr(content_item, "text") and content_item.text
Qualifies(item) == item.hasText /\ item.text # ""

\* index of the item the for loop stops at, 0 when it runs to the end
FirstQualifying(content) ==
    IF \E i \in 1..Len(content) : Qualifies(content[i])
    THEN CHOOSE i \in 1..Len(content) :
            /\ Qualifies(content[i])
            /\ \A j \in 1..(i - 1) : ~Qualifies(content[j])
    ELSE 0

\* mutant: the "null" test is missing
DecideItem_NoNullTest(text) ==
    IF JsonLoads(text).ok THEN [early |-> FALSE, result |-> JsonLoads(text).v]
    ELSE [early |-> FALSE, result |-> Str(text)]

\* what the loop does with the item it stops at
DecideItem(text) ==
    IF text = "null" THEN [early |-> TRUE, result |-> List(<<>>)]
    ELSE IF JsonLoads(text).ok THEN [early |-> FALSE, result |-> JsonLoads(text).v]
    ELSE [early |-> FALSE, result |-> Str(text)]

\* the response's result: early is the return inside the loop
ExtractResult(response) ==
    IF response.hasResult THEN [early |-> FALSE, result |-> response.result]
    ELSE IF FirstQualifying(response.content) = 0
         THEN [early |-> FALSE, result |-> None]
         ELSE DecideItem(response.content[FirstQualifying(response.content)].text)

\* the value send_command returns for a response
NormalizeResponse(response, metadata) ==
    LET x == ExtractResult(response)
    IN  IF x.early THEN ResultValue(List(<<>>), metadata)
        ELSE IF x.result = None
             THEN ResultValue(Dict(<< <<"message", Str(DefaultNotice)>> >>), metadata)
             ELSE ResultValue(x.result, metadata)

(***************************************************************************)
(* MCPClient.display_as_table                                              *)
(***************************************************************************)
important_fields ==
    <<"name", "id", "location", "resourceGroup", "type", "status", "provisioningState">>

MaxColumns == 10
CellLimit == 50
PropertyLimit == 80
UnrankedKey == 999

\* every key of the model; a set of keys iterates in some order of them
AllKeys ==
    <<"zones", "sku", "kind", "tags", "managedBy", "properties", "etag", "status",
      "type", "location", "id", "name", "Name", "foo", "_etag", "resourceGroup",
      "value", "output", "message">>

Reverse(q) == [i \in 1..Len(q) |-> q[Len(q) + 1 - i]]
Rotate(q, n) == [i \in 1..Len(q) |-> q[((i + n - 1) % Len(q)) + 1]]

\* iteration orders of a set of str (hash order differs between runs)
IterOrders == {AllKeys, Reverse(Rotate(AllKeys, 9))}

\* list.index(x): position from 0, or ValueError
ListIndex(q, x) ==
    IF \E i \in 1..Len(q) : q[i] = x
    THEN [raises |-> FALSE, i |-> (CHOOSE i \in 1..Len(q) :
                                      q[i] = x /\ \A j \in 1..(i - 1) : q[j] # x) - 1]
    ELSE [raises |-> TRUE, i |-> 0]

\* the sort key of a header: the membership test lower-cases both sides,
\* the index lookup lower-cases only the header
SortKey(x) ==
    IF LowerKey(x) \in {LowerKey(important_fields[i]) : i \in 1..Len(important_fields)}
    THEN ListIndex(important_fields, LowerKey(x))
    ELSE [raises |-> FALSE, i |-> UnrankedKey]

\* list.sort(key=...) is stable: insert each element after those not greater
RECURSIVE InsertByKey(_, _)
InsertByKey(sorted, x) ==
    IF sorted = <<>> THEN <<x>>
    ELSE IF SortKey(sorted[Len(sorted)]).i <= SortKey(x).i THEN Append(sorted, x)
    ELSE Append(InsertByKey(SubSeq(sorted, 1, Len(sorted) - 1), x), sorted[Len(sorted)])

RECURSIVE StableSort(_)
StableSort(q) ==
    IF q = <<>> THEN <<>>
    ELSE InsertByKey(StableSort(SubSeq(q, 1, Len(q) - 1)), q[Len(q)])

Prefix(q, n) == SubSeq(q, 1, IF Len(q) < n THEN Len(q) ELSE n)

\* all_keys: the union of the keys of the elements that are mappings
KeysOf(items) == UNION {DOMAIN items[i].d : i \in {j \in 1..Len(items) : IsDict(items[j])}}

\* headers before sorting: the set's iteration order, '_' keys dropped
UnsortedHeaders(items, order) ==
    SelectSeq(order, LAMBDA k : k \in KeysOf(items) /\ ~StartsWithUnderscore(k))

SortRaises(headers) == \E i \in 1..Len(headers) : SortKey(headers[i]).raises

\* the columns shown: headers[:10] after the sort
Columns(items, order) == Prefix(StableSort(UnsortedHeaders(items, order)), MaxColumns)

IsComposite(v) == IsDict(v) \/ IsList(v)

\* a table cell: item.get(header, ""), composites as str() cut at CellLimit
Cell(item, header) ==
    IF ~HasKey(item, header) THEN [fmt |-> "str", limit |-> 0, v |-> Str("")]
    ELSE IF IsComposite(item.d[header])
         THEN [fmt |-> "str", limit |-> CellLimit, v |-> item.d[header]]
         ELSE IF item.d[header] = None THEN [fmt |-> "str", limit |-> 0, v |-> Str("")]
         ELSE [fmt |-> "str", limit |-> 0, v |-> item.d[header]]

Rows(items, cols) ==
    [r \in 1..Len(items) |-> [c \in 1..Len(cols) |-> Cell(items[r], cols[c])]]

\* a property row of the two-column table of a single mapping
PropertyRows(data) ==
    LET ks == SelectSeq(data.ks, LAMBDA k : ~StartsWithUnderscore(k))
    IN  [r \in 1..Len(ks) |->
            <<DisplayName(ks[r]),
              IF data.d[ks[r]] = None THEN [fmt |-> "str", limit |-> 0, v |-> Str("")]
              ELSE [fmt |-> "str",
                    limit |-> IF IsComposite(data.d[ks[r]]) THEN PropertyLimit ELSE 0,
                    v |-> data.d[ks[r]]]>>]

Printed(lines) == [lines |-> lines, exc |-> "none"]
Raised(exc) == [lines |-> <<>>, exc |-> exc]

\* the list branch
DisplayList(items, order) ==
    IF items = <<>> THEN Printed(<<Line("notice", <<Str(NoResourcesNotice)>>)>>)
    ELSE IF ~IsDict(items[1]) THEN Printed(<<Line("json", <<List(items)>>)>>)
    ELSE IF SortRaises(UnsortedHeaders(items, order)) THEN Raised("ValueError")
    ELSE IF Columns(items, order) # <<>> /\ \E i \in 1..Len(items) : ~IsDict(items[i])
         THEN Raised("AttributeError")
    ELSE Printed(<<Line("table",
                        <<[t |-> "table",
                           names |-> [c \in 1..Len(Columns(items, order)) |->
                                         DisplayName(Columns(items, order)[c])],
                           columns |-> Columns(items, order),
                           rows |-> Rows(items, Columns(items, order))]>>),
                   Line("total", <<Str("Total: "), Num(Len(items)), Str(" items")>>)>>)

\* after the envelope is unwrapped
DisplayUnwrapped(data, order) ==
    IF IsList(data) THEN DisplayList(data.items, order)
    ELSE IF IsDict(data) THEN Printed(<<Line("proptable", <<[t |-> "rows", rows |-> PropertyRows(data)]>>)>>)
    ELSE Printed(<<Line("text", <<data>>)>>)

\* display_as_table(data): the lines it prints, or the exception it raises
display_as_table(data, order) ==
    IF ~Truthy(data) THEN Printed(<<Line("notice", <<Str(NoDataNotice)>>)>>)
    ELSE IF IsStr(data) THEN Printed(<<Line("text", <<data>>)>>)
    ELSE IF IsDict(data) /\ HasKey(data, "value") /\ IsList(data.d["value"])
            /\ Truthy(data.d["value"])
         THEN DisplayUnwrapped(data.d["value"], order)
    ELSE IF IsDict(data) /\ HasKey(data, "output")
         THEN IF IsStr(data.d["output"])
              THEN IF JsonLoads(data.d["output"].s).ok
                   THEN DisplayUnwrapped(JsonLoads(data.d["output"].s).v, order)
                   ELSE Printed(<<Line("text", <<data.d["output"]>>)>>)
              ELSE DisplayUnwrapped(data.d["output"], order)
    ELSE DisplayUnwrapped(data, order)

\* main's JSON mode (table_requested false)
DisplayJson(actual_result) ==
    IF IsDict(actual_result) /\ HasKey(actual_result, "output")
    THEN IF IsStr(actual_result.d["output"])
         THEN <<Line("text", <<actual_result.d["output"]>>)>>
         ELSE <<Line("json", <<actual_result.d["output"]>>)>>
    ELSE <<Line("json", <<actual_result>>)>>

(***************************************************************************)
(* main(): what it prints for the value send_command returned              *)
(***************************************************************************)
ResponseHeader == Line("header", <<Str("Response:")>>)

ErrorLine(error) ==
    Line("error", <<Str("Error: ")>> \o [i \in 1..Len(error) |-> Str(error[i])])

\* "table" or "json": the branch main takes for a result
RenderMode(result) == IF result.metadata.table_requested THEN "table" ELSE "json"

\* the lines of one turn after the header, or the exception that escapes
MainDisplay(result, order) ==
    IF result.kind = "none" THEN Printed(<<Line("notice", <<Str("No response received.")>>)>>)
    ELSE IF result.kind = "error" THEN Printed(<<ErrorLine(result.error)>>)
    ELSE IF RenderMode(result) = "table" THEN display_as_table(result.result, order)
    ELSE Printed(DisplayJson(result.result))

(***************************************************************************)
(* AsyncExitStack                                                          *)
(***************************************************************************)
\* mutant: the entered contexts are left open
aclose_Leak(stack) == stack

\* exit_stack.aclose(): every entered context is exited
aclose(stack) == <<>>

Entered(stack, ctx) == \E i \in 1..Len(stack) : stack[i] = ctx

(***************************************************************************)
(* Inputs                                                                  *)
(***************************************************************************)
ServerUrl == "http://localhost:5008/sse"
ServerUrls == {"", ServerUrl}

QExit == <<"exit">>
QQuitUpper == <<"QUIT">>
QBlank == <<" ">>
QList == <<"list", " ", "my", " ", "resource", " ", "groups">>
QListTable == QList \o <<" ", "show", " ", "as", " ", "table">>
QTableViewUpper == <<"group", " ", "list", " ", "In", " ", "Table", " ", "View">>
Inputs == {QExit, QQuitUpper, QBlank, <<>>, QList, QListTable, QTableViewUpper}

OracleContents ==
    { <<"group", " ", "list">>,
      <<" ", "group", " ", "list", " ">>,
      <<"group", " ", "list", " ", "show", " ", "as", " ", "table">>,
      <<>>,
      <<" ", " ">> }

OracleOutcomes ==
    {Http(200, c) : c \in OracleContents}
        \cup {Http(500, <<"internal", " ", "error">>), TransportFailure, MalformedBody}

NoOracle == [kind |-> "none", status |-> 0, content |-> <<>>]

\* session.list_tools(): the tools, or "failed" when it raises
ToolListings == {<<>>, <<ToolExt, ToolGroupList, ToolGroupListBare>>}

ExcMessages == {"Connection closed", "Timed out while waiting for response"}
NoExc == ""

DirectResults == {None, Str("done"), List(<<>>)}

ContentItems == {NoTextItem} \cup {TextItem(t) : t \in Texts}

RECURSIVE SeqsUpTo(_, _)
SeqsUpTo(S, n) ==
    IF n = 0 THEN {<<>>}
    ELSE SeqsUpTo(S, n - 1)
            \cup {Append(q, x) : q \in {r \in SeqsUpTo(S, n - 1) : Len(r) = n - 1}, x \in S}

Responses ==
    {DirectResult(v) : v \in DirectResults}
        \cup {ContentResponse(c) : c \in SeqsUpTo(ContentItems, MaxContent)}

(***************************************************************************)
(* State                                                                   *)
(***************************************************************************)
VARIABLES
    pc,               \* where main() is
    server_url,       \* os.getenv("SERVER_URL")
    ollama_available, \* the version probe's verdict
    client,           \* MCPClient() has been constructed
    exit_stack,       \* client.exit_stack: the contexts entered, in order
    session,          \* client.session is set
    available_tools,  \* client.available_tools
    opens,            \* times the remote channel has been opened
    cleanups,         \* times cleanup() has run
    exitReason,       \* why main() left the loop or never entered it
    command,          \* the input of the turn (send_command's command)
    table_requested,  \* send_command's local
    oracleRequest,    \* the request translate_to_azmcp_command sent
    lastOracle,       \* what the oracle did in translate_to_azmcp_command
    requests,         \* oracle requests sent in the turn
    azure_command,    \* send_command's local
    metadata,         \* send_command's result_metadata
    response,         \* what call_tool returned in the turn
    calls,            \* tool calls made in the turn
    callExc,          \* the message of the exception call_tool raised
    sendResult,       \* the value send_command returned
    mode,             \* the rendering main chose for the turn
    out               \* the lines printed since the last prompt

vars ==
    <<pc, server_url, ollama_available, client, exit_stack, session, available_tools,
      opens, cleanups, exitReason, command, table_requested, oracleRequest, lastOracle,
      requests,
      azure_command, metadata, response, calls, callExc, sendResult, mode, out>>

processVars == <<server_url, ollama_available, client, exit_stack, session,
                 available_tools, opens, cleanups>>

turnVars == <<command, table_requested, oracleRequest, lastOracle, requests, azure_command, metadata,
              response, calls, callExc, sendResult, mode>>

TurnIdle ==
    /\ command = <<>>
    /\ table_requested = FALSE
    /\ oracleRequest = NoRequest
    /\ lastOracle = NoOracle
    /\ requests = 0
    /\ azure_command = <<>>
    /\ metadata = NoMetadata
    /\ response = ContentResponse(<<>>)
    /\ calls = 0
    /\ callExc = NoExc
    /\ sendResult = NoResult
    /\ mode = "none"

Init ==
    /\ pc = "start"
    /\ server_url \in ServerUrls
    /\ ollama_available = FALSE
    /\ client = FALSE
    /\ exit_stack = <<>>
    /\ session = FALSE
    /\ available_tools = <<>>
    /\ opens = 0
    /\ cleanups = 0
    /\ exitReason = "none"
    /\ TurnIdle
    /\ out = <<>>

\* the locals of the previous turn are gone
TurnReset ==
    /\ table_requested' = FALSE
    /\ oracleRequest' = NoRequest
    /\ lastOracle' = NoOracle
    /\ requests' = 0
    /\ azure_command' = <<>>
    /\ metadata' = NoMetadata
    /\ response' = ContentResponse(<<>>)
    /\ calls' = 0
    /\ callExc' = NoExc
    /\ sendResult' = NoResult
    /\ mode' = "none"

(***************************************************************************)
(* main() before the loop                                                  *)
(***************************************************************************)
\* SERVER_URL is not set: main prints the error and returns
MissingServerUrl ==
    /\ pc = "start"
    /\ server_url = ""
    /\ out' = <<Line("config", <<Str("ERROR: SERVER_URL environment variable not set")>>)>>
    /\ exitReason' = "no_server_url"
    /\ pc' = "done"
    /\ UNCHANGED <<processVars, turnVars>>

\* the version probe, then client = MCPClient()
ProbeOracle ==
    /\ pc = "start"
    /\ server_url # ""
    /\ \E available \in BOOLEAN : ollama_available' = available
    /\ client' = TRUE
    /\ pc' = "connect"
    /\ UNCHANGED <<server_url, exit_stack, session, available_tools, opens, cleanups,
                   exitReason, turnVars, out>>

ConnectLines(tools, listed) ==
    IF ~listed
    THEN <<Line("connect", <<Str("Connected but couldn't retrieve tool list: ")>>)>>
    ELSE <<Line("connect", <<Str("Connected to Azure MCP Server: "), Str(server_url)>>)>>
            \o (IF \E i \in 1..Len(tools) : tools[i] = ToolExt THEN <<>>
                ELSE <<Line("connect", <<Str("Warning: 'azmcp-extension-az' tool not found. Azure CLI commands may not work.")>>)>>)

AvailabilityLine ==
    Line("connect",
         <<Str(IF ollama_available
               THEN "Ollama is available for natural language processing"
               ELSE "Ollama is not available. Natural language queries will be sent directly to Azure.")>>)

\* client.connect_to_server(server_url); an exception leaves through finally
ConnectToServer ==
    /\ pc = "connect"
    /\ \E step \in {"sse_client", "ClientSession", "initialize", "connected"} :
        \E listed \in BOOLEAN :
          \E tools \in ToolListings :
            /\ exit_stack' =
                  IF step = "sse_client" THEN exit_stack
                  ELSE IF step = "ClientSession" THEN Append(exit_stack, "sse_client")
                  ELSE exit_stack \o <<"sse_client", "ClientSession">>
            /\ opens' = IF step = "sse_client" THEN opens ELSE opens + 1
            /\ session' = (step \in {"initialize", "connected"})
            /\ IF step = "connected"
               THEN /\ available_tools' = IF listed THEN tools ELSE <<>>
                    /\ out' = ConnectLines(tools, listed) \o <<AvailabilityLine>>
                    /\ pc' = "prompt"
                    /\ exitReason' = exitReason
               ELSE /\ available_tools' = available_tools
                    /\ out' = out
                    /\ pc' = "cleanup"
                    /\ exitReason' = "connect_failed"
    /\ UNCHANGED <<server_url, ollama_available, client, cleanups, turnVars>>

(***************************************************************************)
(* The session loop                                                        *)
(***************************************************************************)
Banner ==
    Line("banner",
         <<Str(IF ollama_available
               THEN "Enter your Azure request in natural language (or 'exit' to quit)"
               ELSE "Enter Azure CLI command (or 'exit' to quit)")>>)

ExitWords == {<<"exit">>, <<"quit">>, <<"q">>}

\* the banner, input("> "), and the two tests on the input
ReadInput ==
    /\ pc = "prompt"
    /\ \E user_input \in Inputs :
        /\ out' = <<Banner>>
        /\ IF Lower(user_input) \in ExitWords
           THEN /\ pc' = "cleanup"
                /\ exitReason' = "user_exit"
                /\ command' = <<>>
           ELSE IF Strip(user_input) = <<>>
           THEN /\ pc' = "prompt"
                /\ exitReason' = exitReason
                /\ command' = <<>>
           ELSE /\ pc' = "send_command"
                /\ exitReason' = exitReason
                /\ command' = user_input
    /\ TurnReset
    /\ UNCHANGED processVars

\* send_command up to the translation: the session check, the progress
\* notice, table_requested
SendCommandBegin ==
    /\ pc = "send_command"
    /\ IF ~session
       THEN /\ pc' = "cleanup"
            /\ exitReason' = "turn_exception"
            /\ UNCHANGED <<table_requested, out>>
       ELSE /\ out' = Append(out, Line("processing", <<Str("Processing: "), Toks(command)>>))
            /\ table_requested' = TableRequested(command)
            /\ pc' = "translate"
            /\ exitReason' = exitReason
    /\ UNCHANGED <<processVars, command, oracleRequest, lastOracle, requests,
                   azure_command, metadata, response, calls, callExc, sendResult, mode>>

\* translate_to_azmcp_command and what send_command does with its value
Translate ==
    /\ pc = "translate"
    /\ \E oracle \in OracleOutcomes :
        LET azure == TranslateResult(command, available_tools, oracle)
        IN  /\ oracleRequest' = IF RequestIssued(available_tools)
                                THEN OracleRequest(command, available_tools)
                                ELSE NoRequest
            /\ lastOracle' = IF RequestIssued(available_tools) THEN oracle ELSE NoOracle
            /\ requests' = IF RequestIssued(available_tools) THEN requests + 1 ELSE requests
            /\ azure_command' = azure
            /\ out' = IF azure # command
                      THEN Append(out, Line("translated", <<Str("Translated to: "), Toks(azure)>>))
                      ELSE out
            /\ metadata' = BuildMetadata(command, azure, table_requested)
    /\ pc' = "call_tool"
    /\ UNCHANGED <<processVars, exitReason, command, table_requested, response, calls,
                   callExc, sendResult, mode>>

\* session.call_tool and the rest of send_command: the response is
\* normalised, an exception becomes the error value
CallTool ==
    /\ pc = "call_tool"
    /\ calls' = calls + 1
    /\ \/ \E msg \in ExcMessages :
            /\ callExc' = msg
            /\ response' = response
            /\ sendResult' = CommandError(msg)
       \/ \E r \in Responses :
            /\ callExc' = callExc
            /\ response' = r
            /\ sendResult' = NormalizeResponse(r, metadata)
    /\ oracleRequest' = NoRequest
    /\ lastOracle' = NoOracle
    /\ pc' = "present"
    /\ UNCHANGED <<processVars, exitReason, command, table_requested, requests,
                   azure_command, metadata, mode, out>>

\* main prints the turn's result; nothing catches what the rendering raises
Present ==
    /\ pc = "present"
    /\ \E order \in IterOrders :
        LET shown == MainDisplay(sendResult, order)
        IN  /\ out' = Append(out, ResponseHeader) \o shown.lines
            /\ IF shown.exc = "none"
               THEN /\ pc' = "prompt"
                    /\ exitReason' = exitReason
               ELSE /\ pc' = "cleanup"
                    /\ exitReason' = "turn_exception"
    /\ mode' = IF sendResult.kind = "result" THEN RenderMode(sendResult) ELSE "none"
    /\ UNCHANGED <<processVars, command, table_requested, oracleRequest, lastOracle,
                   requests, azure_command, metadata, response, calls, callExc, sendResult>>

\* finally: client.cleanup()
Cleanup ==
    /\ pc = "cleanup"
    /\ exit_stack' = aclose(exit_stack)
    /\ cleanups' = cleanups + 1
    /\ pc' = "done"
    /\ UNCHANGED <<server_url, ollama_available, client, session, available_tools, opens,
                   exitReason, turnVars, out>>

Next ==
    \/ MissingServerUrl
    \/ ProbeOracle
    \/ ConnectToServer
    \/ ReadInput
    \/ SendCommandBegin
    \/ Translate
    \/ CallTool
    \/ Present
    \/ Cleanup

Spec == Init /\ [][Next]_vars

(***************************************************************************)
(* Properties                                                              *)
(***************************************************************************)
LineContains(line, msg) == \E j \in 1..Len(line.parts) : line.parts[j] = Str(msg)

LinesWith(msg) == {i \in 1..Len(out) : LineContains(out[i], msg)}

\* a command turn has been presented and the loop is at the prompt again
TurnPresented == pc = "prompt" /\ sendResult.kind # "none"

\* C1: when call_tool raises, send_command returns the error value carrying
\* the exception's message instead of raising, the loop prints exactly one
\* line with that message, an error line, and is back at the prompt.
C1_DispatchErrorReported ==
    callExc # NoExc =>
        /\ pc \in {"present", "prompt"}
        /\ exitReason = "none"
        /\ sendResult.kind = "error"
        /\ \E i \in 1..Len(sendResult.error) : sendResult.error[i] = callExc
        /\ pc = "prompt" =>
              /\ Cardinality(LinesWith(callExc)) = 1
              /\ \A i \in LinesWith(callExc) : out[i].kind = "error"

C1_Witness == callExc = "Connection closed" /\ pc = "prompt" /\ Len(out) = 4

\* C2: a process that ends has ended for a missing SERVER_URL, a failed
\* connection or the user's exit, never for a failure inside a command turn.
C2_TurnFailuresKeepLoop ==
    pc \in {"cleanup", "done"} => exitReason \in {"no_server_url", "connect_failed", "user_exit"}

OracleFailed(oracle) ==
    \/ oracle.kind = "transport"
    \/ oracle.kind = "http" /\ oracle.status # 200

\* C3: when the oracle request returns a non-200 status or fails in
\* transport, translate_to_azmcp_command returns the query unchanged, nothing
\* is raised, and the turn has sent exactly that one request.
C3_TranslationFailsOpen ==
    (pc = "call_tool" /\ OracleFailed(lastOracle)) =>
        /\ azure_command = command
        /\ metadata.azure_command = command
        /\ requests = 1
        /\ oracleRequest.user = command
        /\ exitReason = "none"

C3_Witness ==
    /\ pc = "call_tool"
    /\ lastOracle = Http(500, <<"internal", " ", "error">>)
    /\ azure_command = QList

C4_Lifecycle_Inv ==
    /\ opens <= 1
    /\ cleanups <= 1
    /\ cleanups = 1 => pc = "done"
    /\ (pc = "done" /\ client) =>
          /\ cleanups = 1
          /\ ~Entered(exit_stack, "sse_client")
          /\ ~Entered(exit_stack, "ClientSession")

\* C4: the channel is opened at most once; on every way out after the client
\* exists cleanup() has run exactly once and the channel is closed; no tool
\* call is made once cleanup has run.
C4_Lifecycle ==
    /\ []C4_Lifecycle_Inv
    /\ [][calls' # calls /\ calls' # 0 => cleanups = 0 /\ cleanups' = 0]_vars

C4_Witness ==
    /\ pc = "done"
    /\ exitReason = "turn_exception"
    /\ opens = 1
    /\ cleanups = 1
    /\ calls = 1

EmptyResult == List(<<>>)

HasNullItem(content) == \E i \in 1..Len(content) : content[i] = TextItem("null")

\* C5 as claimed: a response with a "null" item yields Empty wherever the
\* item stands.
C5_NullAlwaysEmpty ==
    (sendResult.kind = "result" /\ HasNullItem(response.content)) =>
        sendResult.result = EmptyResult

NullIsFirstText(content) ==
    \E i \in 1..Len(content) :
        /\ content[i] = TextItem("null")
        /\ \A j \in 1..(i - 1) : ~content[j].hasText \/ content[j].text = ""

\* C5 amended: a response without a direct result whose first item with
\* non-empty text is "null" yields Empty, whatever items follow.
C5_FirstNullIsEmpty ==
    (sendResult.kind = "result" /\ ~response.hasResult /\ NullIsFirstText(response.content)) =>
        sendResult.result = EmptyResult

C5_Witness ==
    /\ pc = "present"
    /\ response.content = <<TextItem(""), TextItem("null")>>
    /\ sendResult.result = EmptyResult

\* the text of the first item with non-empty text, "" when there is none
DecidingText(r) ==
    IF r.hasResult \/ ~\E i \in 1..Len(r.content) : r.content[i].hasText /\ r.content[i].text # ""
    THEN ""
    ELSE r.content[CHOOSE i \in 1..Len(r.content) :
                      /\ r.content[i].hasText /\ r.content[i].text # ""
                      /\ \A j \in 1..(i - 1) : ~r.content[j].hasText \/ r.content[j].text = ""].text

\* C6: Empty comes from the text "null" alone, and a decoded empty list is
\* another value, rendered as the "no resources found" notice.
C6_EmptyDistinctFromEmptyList ==
    /\ (sendResult.kind = "result" /\ ~response.hasResult /\ sendResult.result = EmptyResult)
          => DecidingText(response) = "null"
    /\ (TurnPresented /\ sendResult.kind = "result" /\ DecidingText(response) = "[]")
          => /\ sendResult.result # EmptyResult
             /\ \E i \in 1..Len(out) : out[i] = Line("notice", <<Str(NoResourcesNotice)>>)

\* C7: the translated command is never the empty string.
C7_TranslationNonEmpty ==
    pc = "call_tool" => (command # <<>> => azure_command # <<>>)

\* position of a key in the priority list, compared without case; 0 if absent
PriorityRank(k) ==
    IF \E i \in 1..Len(important_fields) : LowerKey(important_fields[i]) = LowerKey(k)
    THEN CHOOSE i \in 1..Len(important_fields) : LowerKey(important_fields[i]) = LowerKey(k)
    ELSE 0

\* cols is the first at most 10 of: priority keys in priority order, then the rest
ClaimedColumns(cols, keys) ==
    LET visible == {k \in keys : ~StartsWithUnderscore(k)}
        shown == {cols[i] : i \in 1..Len(cols)}
    IN  /\ Len(cols) = IF Cardinality(visible) < 10 THEN Cardinality(visible) ELSE 10
        /\ Cardinality(shown) = Len(cols)
        /\ shown \subseteq visible
        /\ \A i, j \in 1..Len(cols) :
              i < j =>
                 /\ PriorityRank(cols[i]) = 0 => PriorityRank(cols[j]) = 0
                 /\ PriorityRank(cols[j]) # 0 => PriorityRank(cols[i]) <= PriorityRank(cols[j])
        /\ \A k \in visible \ shown :
              PriorityRank(k) # 0 =>
                 \A i \in 1..Len(cols) :
                    PriorityRank(cols[i]) # 0 /\ PriorityRank(cols[i]) <= PriorityRank(k)

ListOfMappings(v) ==
    /\ IsList(v)
    /\ v.items # <<>>
    /\ \A i \in 1..Len(v.items) : IsDict(v.items[i])

\* C8: in table mode a non-empty list of mappings is shown as a table whose
\* columns are the first at most 10 of the priority keys, in priority order,
\* followed by the other keys.
C8_ColumnOrder ==
    (mode = "table" /\ sendResult.kind = "result" /\ ListOfMappings(sendResult.result)) =>
        \E i \in 1..Len(out) :
            /\ out[i].kind = "table"
            /\ ClaimedColumns(out[i].parts[1].columns, KeysOf(sendResult.result.items))

DefaultMessage == Dict(<< <<"message", Str(DefaultNotice)>> >>)

\* C9: a direct result value is the result; otherwise the first item with
\* non-empty text decides alone: Empty for "null", the decoded value when the
\* text decodes, the raw text when it does not; the default notice is the
\* result exactly when no item has non-empty text.
C9_Precedence ==
    (sendResult.kind = "result" /\ calls = 1) =>
        /\ (response.hasResult /\ response.result # None) =>
              sendResult.result = response.result
        /\ ~response.hasResult =>
              LET text == DecidingText(response)
              IN  /\ text = "null" => sendResult.result = EmptyResult
                  /\ (text \notin {"", "null"} /\ JsonLoads(text).ok) =>
                        sendResult.result = JsonLoads(text).v
                  /\ (text \notin {"", "null"} /\ ~JsonLoads(text).ok) =>
                        sendResult.result = Str(text)
                  /\ sendResult.result = DefaultMessage <=> text = ""

\* the inputs that hold a table phrase
TableQueries == {QListTable, QTableViewUpper}

\* C10: table_requested is settled from the original query before the
\* oracle request, the metadata carries that value, and the rendering main
\* chooses follows it whatever the translated command and the response are.
C10_TableRequestedFromQuery ==
    /\ pc = "translate" =>
          /\ requests = 0
          /\ table_requested <=> command \in TableQueries
    /\ pc \in {"call_tool", "present"} =>
          /\ table_requested <=> command \in TableQueries
          /\ metadata.table_requested <=> command \in TableQueries
    /\ mode # "none" => (mode = "table" <=> command \in TableQueries)

C10_Witness ==
    /\ TurnPresented
    /\ command = QList
    /\ TableRequested(azure_command)
    /\ mode = "json"

====
